---- MODULE Spec2Model ----
(***************************************************************************)
(* A model of CFO.py: the row store built by load_data, the fuzzy ranking  *)
(* of find_relevant_rows, the prompt built by build_prompt and the chat    *)
(* input handler that records the conversation in st.session_state.        *)
(*                                                                         *)
(* Text is a sequence of one-character strings, so that lower(), strip()   *)
(* and SequenceMatcher work on characters; a literal piece of a template   *)
(* is one element naming the literal.                                      *)
(***************************************************************************)
EXTENDS Integers, Sequences, FiniteSets, TLC

VARIABLES
    source,      \* cfo_data.csv as pd.read_csv sees it: header and lines
    data_df,     \* the module-level frame returned by load_data()
    df_copy,     \* the scratch frame of the latest find_relevant_rows call
    build,       \* how this build's default (quicksort) argsort orders ties
    last_call,   \* the latest find_relevant_rows call: arguments and result
    prompt,      \* the latest build_prompt call: arguments and payload
    messages,    \* st.session_state.messages
    last_run     \* the latest handling of a chat input

vars == <<source, data_df, df_copy, build, last_call, prompt, messages, last_run>>

----------------------------------------------------------------------------
(* Bounds of the model. *)

MaxRows == 3

MaxTopN == 4

MaxTurns == 2

----------------------------------------------------------------------------
(* Text helpers. *)

Min(x, y) == IF x <= y THEN x ELSE y

Max(x, y) == IF x >= y THEN x ELSE y

\* str.lower() on one character
LowerChar(c) == IF c = "A" THEN "a" ELSE IF c = "B" THEN "b" ELSE c

\* str.lower()
Lower(s) == [i \in 1..Len(s) |-> LowerChar(s[i])]

IsSpace(c) == c = " "

RECURSIVE LStrip(_)
LStrip(s) == IF s # <<>> /\ IsSpace(Head(s)) THEN LStrip(Tail(s)) ELSE s

RECURSIVE RStrip(_)
RStrip(s) ==
    IF s # <<>> /\ IsSpace(s[Len(s)]) THEN RStrip(SubSeq(s, 1, Len(s) - 1)) ELSE s

\* str.strip()
Strip(s) == RStrip(LStrip(s))

\* whether sub occurs in s as a contiguous run
Contains(s, sub) ==
    \E i \in 0..(Len(s) - Len(sub)) :
        \A d \in 1..Len(sub) : s[i + d] = sub[d]

----------------------------------------------------------------------------
(* difflib.SequenceMatcher(None, a, b).ratio(), without junk and below the *)
(* 200 elements where autojunk starts.                                     *)

\* the common blocks a[i..i+k-1] = b[j..j+k-1] inside a[alo..ahi], b[blo..bhi]
CommonBlocks(a, b, alo, ahi, blo, bhi) ==
    { t \in (alo..ahi) \X (blo..bhi) \X (1..Min(ahi - alo + 1, bhi - blo + 1)) :
        /\ t[1] + t[3] - 1 <= ahi
        /\ t[2] + t[3] - 1 <= bhi
        /\ \A d \in 0..(t[3] - 1) : a[t[1] + d] = b[t[2] + d] }

\* find_longest_match: the longest block, the earliest in a, then in b
find_longest_match(a, b, alo, ahi, blo, bhi) ==
    LET blocks == CommonBlocks(a, b, alo, ahi, blo, bhi)
    IN  IF blocks = {} THEN <<alo, blo, 0>>
        ELSE CHOOSE t \in blocks :
                \A u \in blocks :
                    \/ u[3] < t[3]
                    \/ u[3] = t[3] /\ t[1] < u[1]
                    \/ u[3] = t[3] /\ t[1] = u[1] /\ t[2] <= u[2]

\* get_matching_blocks, summed: the number of matched characters
RECURSIVE matches(_, _, _, _, _, _)
matches(a, b, alo, ahi, blo, bhi) ==
    IF alo > ahi \/ blo > bhi THEN 0
    ELSE LET m == find_longest_match(a, b, alo, ahi, blo, bhi)
             i == m[1]
             j == m[2]
             k == m[3]
         IN  IF k = 0 THEN 0
             ELSE k + matches(a, b, alo, i - 1, blo, j - 1)
                    + matches(a, b, i + k, ahi, j + k, bhi)

\* ratio(): 2.0 * matches / (len(a) + len(b)), 1.0 when both are empty;
\* kept exact as a fraction [num, den] (on the texts of this model the
\* floating-point sums order and tie exactly as the fractions do)
ratio(a, b) ==
    LET length == Len(a) + Len(b)
    IN  IF length = 0 THEN [num |-> 1, den |-> 1]
        ELSE [num |-> 2 * matches(a, b, 1, Len(a), 1, Len(b)), den |-> length]

\* similarity(a, b)
similarity(a, b) == ratio(Lower(a), Lower(b))

\* arithmetic and order of fractions
FracAdd(x, y) == [num |-> x.num * y.den + y.num * x.den, den |-> x.den * y.den]

FracLess(x, y) == x.num * y.den < y.num * x.den

FracEq(x, y) == x.num * y.den = y.num * x.den

FracLeq(x, y) == x.num * y.den <= y.num * x.den

----------------------------------------------------------------------------
(* The CSV source and the frames of pandas.                                *)
(* A frame is [columns, index, rows]: the column labels in order, the row  *)
(* labels in order, and one record per row.                                *)

\* a missing value (numpy.nan), as read_csv gives for an absent cell
NaN == <<"NaN">>

\* load_data's expected_cols
load_expected_cols ==
    <<"Chapter", "Section", "Rule", "Example", "Learning Objective", "Related Concept">>

\* find_relevant_rows's expected_cols
expected_cols == <<"Rule", "Example", "Learning Objective", "Related Concept">>

Range(s) == {s[i] : i \in 1..Len(s)}

\* the headers a source may have: all six columns, or an expected column
\* missing and an unrecognised column more
Headers ==
    { load_expected_cols,
      <<"Chapter", "Section", "Rule", "Example", "Learning Objective", "Notes">> }

AllCols == Range(load_expected_cols) \cup {"Notes"}

Cells(ch, se, ru, ex, lo, rc, no) ==
    [c \in AllCols |->
        CASE c = "Chapter" -> ch
          [] c = "Section" -> se
          [] c = "Rule" -> ru
          [] c = "Example" -> ex
          [] c = "Learning Objective" -> lo
          [] c = "Related Concept" -> rc
          [] OTHER -> no]

\* the lines a source may hold: bad is a line read_csv rejects (a wrong
\* field count), cells what the line gives for each column it could fill
LinePool ==
    { [bad |-> FALSE,
       cells |-> Cells(<<"A">>, <<"s">>, <<"a", "b">>, <<"A">>, NaN, <<"b">>, <<"x">>)],
      [bad |-> FALSE,
       cells |-> Cells(<<"b">>, <<"t">>, <<"a", "b">>, <<"A">>, NaN, <<"b">>, <<"x">>)],
      [bad |-> FALSE,
       cells |-> Cells(<<"A">>, <<"s">>, <<"b", "a">>, NaN, <<"a">>, NaN, NaN)],
      [bad |-> TRUE,
       cells |-> Cells(<<"b">>, <<"s">>, <<"a">>, <<"a">>, <<"a">>, <<"a">>, <<"x">>)] }

\* the sequences over S of length at most n that hold no element twice
InjSeqs(S, n) ==
    UNION { { s \in [1..k -> S] : \A i, j \in 1..k : s[i] = s[j] => i = j } : k \in 0..n }

Sources == [header : Headers, lines : InjSeqs(LinePool, MaxRows)]

RECURSIVE kept_lines(_)
\* the lines of a file that read_csv keeps under on_bad_lines="skip"
kept_lines(lines) ==
    IF lines = <<>> THEN <<>>
    ELSE IF Head(lines).bad THEN kept_lines(Tail(lines))
         ELSE <<Head(lines)>> \o kept_lines(Tail(lines))

\* pd.read_csv("cfo_data.csv", encoding="utf-8", on_bad_lines="skip")
read_csv(src) ==
    LET kept == kept_lines(src.lines)
    IN  [columns |-> src.header,
         index |-> [i \in 1..Len(kept) |-> i - 1],
         rows |-> [i \in 1..Len(kept) |->
                      [c \in Range(src.header) |-> kept[i].cells[c]]]]

\* a seeded fault: missing values are left as they are
fillna_skipped(df, value) == df

\* df.fillna(value, inplace=True)
fillna(df, value) ==
    [df EXCEPT !.rows =
        [i \in 1..Len(df.rows) |->
            [c \in DOMAIN df.rows[i] |->
                IF df.rows[i][c] = NaN THEN value ELSE df.rows[i][c]]]]

\* df[col] = value, value a scalar: a new last column, or the column replaced
setitem_scalar(df, col, value) ==
    [df EXCEPT
        !.columns = IF col \in Range(df.columns) THEN df.columns
                    ELSE Append(df.columns, col),
        !.rows = [i \in 1..Len(df.rows) |->
                     [c \in DOMAIN df.rows[i] \cup {col} |->
                         IF c = col THEN value ELSE df.rows[i][c]]]]

\* the loop over expected_cols of load_data
RECURSIVE ensure_columns(_, _)
ensure_columns(df, cols) ==
    IF cols = <<>> THEN df
    ELSE ensure_columns(
            IF Head(cols) \notin Range(df.columns)
            THEN setitem_scalar(df, Head(cols), <<>>)
            ELSE df,
            Tail(cols))

\* load_data()
load_data(src) == ensure_columns(fillna(read_csv(src), <<>>), load_expected_cols)

----------------------------------------------------------------------------
(* find_relevant_rows.                                                     *)

\* str(value) of a cell
Str(v) == IF v = NaN THEN <<"n", "a", "n">> ELSE v

Zero == [num |-> 0, den |-> 1]

RECURSIVE sum_similarity(_, _, _)
\* sum([similarity(question, str(row[col])) for col in cols])
sum_similarity(question, row, cols) ==
    IF cols = <<>> THEN Zero
    ELSE FracAdd(similarity(question, Str(row[Head(cols)])),
                 sum_similarity(question, row, Tail(cols)))

\* a seeded fault: the score also counts Chapter and Section
row_score_all_fields(question, row) == sum_similarity(question, row, load_expected_cols)

\* row_score(row), with the question of the enclosing call
row_score(question, row) == sum_similarity(question, row, expected_cols)

\* a seeded fault: df_copy = data_df, the same object under another name
copy_alias(df) == [frame |-> df, shared |-> TRUE]

\* df.copy(): a new object; what is set on it does not reach df
copy(df) == [frame |-> df, shared |-> FALSE]

\* a seeded fault: func is tried on a Series without labels, where
\* row[col] raises KeyError
apply_empty_result_unlabelled(df) == [kind |-> "frame", values |-> <<>>]

\* DataFrame.apply(func, axis=1) on a frame without rows (apply_empty_result
\* of the pandas releases that accept on_bad_lines): func is tried on a row
\* of missing values labelled by the columns; when it returns a scalar the
\* result is an empty Series, when it raises (row[col] of a column the frame
\* lacks) the result is a copy of the frame
apply_empty_result(df) ==
    IF \A i \in 1..Len(expected_cols) : expected_cols[i] \in Range(df.columns)
    THEN [kind |-> "series", values |-> <<>>]
    ELSE [kind |-> "frame", values |-> <<>>]

\* df.apply(row_score, axis=1)
apply(df, question) ==
    IF Len(df.rows) = 0 THEN apply_empty_result(df)
    ELSE [kind |-> "series",
          values |-> [i \in 1..Len(df.rows) |-> row_score(question, df.rows[i])]]

\* df[col] = series, the series aligned with the rows of df
setitem_series(df, col, values) ==
    [df EXCEPT
        !.columns = IF col \in Range(df.columns) THEN df.columns
                    ELSE Append(df.columns, col),
        !.rows = [i \in 1..Len(df.rows) |->
                     [c \in DOMAIN df.rows[i] \cup {col} |->
                         IF c = col THEN values[i] ELSE df.rows[i][c]]]]

Perms(n) == { p \in [1..n -> 1..n] : \A i, j \in 1..n : p[i] = p[j] => i = j }

\* a seeded fault: the order of equal scores turns with every call made
argsort_by_history(scores, tie) ==
    CHOOSE p \in Perms(Len(scores)) :
        \A i, j \in 1..Len(scores) :
            i < j => \/ FracLess(scores[p[j]], scores[p[i]])
                     \/ /\ FracEq(scores[p[i]], scores[p[j]])
                        /\ IF last_call.made THEN p[i] > p[j] ELSE p[i] < p[j]

\* the positions of sort_values("score", ascending=False) under the default
\* kind="quicksort": by descending score; quicksort is not stable, rows of
\* equal score come in the order tie, which the build fixes
argsort_descending(scores, tie) ==
    CHOOSE p \in Perms(Len(scores)) :
        \A i, j \in 1..Len(scores) :
            i < j => \/ FracLess(scores[p[j]], scores[p[i]])
                     \/ /\ FracEq(scores[p[i]], scores[p[j]])
                        /\ tie[p[i]] < tie[p[j]]

\* df.sort_values("score", ascending=False)
sort_values(df, tie) ==
    LET p == argsort_descending([i \in 1..Len(df.rows) |-> df.rows[i]["score"]], tie)
    IN  [df EXCEPT !.index = [i \in 1..Len(df.rows) |-> df.index[p[i]]],
                   !.rows = [i \in 1..Len(df.rows) |-> df.rows[p[i]]]]

\* a seeded fault: one row fewer than asked for
head_short(df, n) ==
    LET k == Min(Max(n - 1, 0), Len(df.rows))
    IN  [df EXCEPT !.index = SubSeq(df.index, 1, k), !.rows = SubSeq(df.rows, 1, k)]

\* df.head(n): df[:n]
head(df, n) ==
    LET k == IF n >= 0 THEN Min(n, Len(df.rows)) ELSE Max(Len(df.rows) + n, 0)
    IN  [df EXCEPT !.index = SubSeq(df.index, 1, k), !.rows = SubSeq(df.rows, 1, k)]

\* df.drop(columns=[col])
drop(df, col) ==
    [df EXCEPT
        !.columns = SelectSeq(df.columns, LAMBDA c : c # col),
        !.rows = [i \in 1..Len(df.rows) |->
                     [c \in DOMAIN df.rows[i] \ {col} |-> df.rows[i][c]]]]

NoFrame == [columns |-> <<>>, index |-> <<>>, rows |-> <<>>]

\* find_relevant_rows(question, top_n) on the store df: whether it raised,
\* the frame returned, the scratch frame and the store as the call leaves it
find_relevant_rows(df, tie, question, top_n) ==
    LET c == copy(df)
        scores == apply(c.frame, question)
    IN  IF scores.kind = "frame"
        THEN \* a frame of several columns set as one column: ValueError
             [raised |-> TRUE, result |-> NoFrame, scratch |-> c.frame, store |-> df]
        ELSE LET scored == setitem_series(c.frame, "score", scores.values)
                 top_rows == head(sort_values(scored, tie), top_n)
             IN  [raised |-> FALSE,
                  result |-> drop(top_rows, "score"),
                  scratch |-> scored,
                  store |-> IF c.shared THEN scored ELSE df]

----------------------------------------------------------------------------
(* build_prompt.                                                           *)

\* the literal pieces of the template
Framing == "You are a CFO Assistant AI. Use only the context below [...] clearly explain your reasoning."

QuestionHead == "### User Question:"

ContextHead == "### CFO Handbook Context:"

AnswerHead == "### Your Answer:"

Label(col) == <<":small_blue_diamond: **", col, ":**">>

\* the columns a context row is rendered with
rendered_cols == <<"Chapter", "Section", "Rule", "Example", "Learning Objective">>

\* row.get(col, '')
get(row, col, default) == IF col \in DOMAIN row THEN row[col] ELSE default

RECURSIVE render_row(_, _)
\* the lines added to context_text for one row
render_row(row, cols) ==
    IF cols = <<>> THEN <<>>
    ELSE Label(Head(cols)) \o Str(get(row, Head(cols), <<>>)) \o render_row(row, Tail(cols))

RECURSIVE context_text(_)
\* the loop over context_df.iterrows()
context_text(rows) ==
    IF rows = <<>> THEN <<>>
    ELSE render_row(Head(rows), rendered_cols) \o context_text(Tail(rows))

\* a seeded fault: the question is normalised before it is rendered
build_prompt_lowered(question, context_df) ==
    <<Framing, QuestionHead>> \o Lower(question)
        \o <<ContextHead>> \o context_text(context_df.rows) \o <<AnswerHead>>

\* build_prompt(question, context_df)
build_prompt(question, context_df) ==
    <<Framing, QuestionHead>> \o question
        \o <<ContextHead>> \o context_text(context_df.rows) \o <<AnswerHead>>

----------------------------------------------------------------------------
(* The chat history and the handling of a chat input.                      *)

Greeting == "Hi! I'm your CFO Assistant. Ask me a finance-related question!"

Fallback == "I couldn't generate a response."

Oops == "Oops! Something went wrong."

\* the code span around the exception's message
CodeOpen == "(code)"

CodeClose == "(/code)"

\* top_n=3, the default of find_relevant_rows
DefaultTopN == 3

Message(role, content) == [role |-> role, content |-> content]

\* what model.generate_content does for one request: a response with a text
\* (possibly empty), or an exception with a message
Responses ==
    { [kind |-> "text", text |-> <<" ", "o", "k", " ">>],
      [kind |-> "text", text |-> <<>>],
      [kind |-> "raise", text |-> <<"4", "2", "9">>] }

\* a seeded fault: no try/except around the generation call
generate_uncaught(response) ==
    IF response.kind = "raise" THEN [propagated |-> TRUE, answer |-> <<>>]
    ELSE [propagated |-> FALSE,
          answer |-> IF response.text # <<>> THEN Strip(response.text) ELSE <<Fallback>>]

\* the try/except around model.generate_content: the answer it leaves
generate(response) ==
    IF response.kind = "raise"
    THEN [propagated |-> FALSE, answer |-> <<Oops, CodeOpen>> \o response.text \o <<CodeClose>>]
    ELSE [propagated |-> FALSE,
          answer |-> IF response.text # <<>> THEN Strip(response.text) ELSE <<Fallback>>]

\* a seeded fault: the history is started again for every input
history_restarted(history, user_input) ==
    <<Message("assistant", <<Greeting>>), Message("user", user_input)>>

\* st.session_state.messages.append({"role": "user", "content": user_input})
history_with_input(history, user_input) == Append(history, Message("user", user_input))

----------------------------------------------------------------------------
(* The state machine.                                                      *)

\* the questions asked of find_relevant_rows and build_prompt
Questions == { <<>>, <<"a", "b">>, <<"B">> }

\* the questions typed into st.chat_input (an empty input is not submitted)
ChatQuestions == { <<"a", "b">>, <<"B">> }

TopNs == (0 - 1)..MaxTopN

NoCall == [made |-> FALSE, raised |-> FALSE, question |-> <<>>, top_n |-> 0,
           result |-> NoFrame]

NoPrompt == [made |-> FALSE, question |-> <<>>, context |-> NoFrame, payload |-> <<>>]

NoRun == [made |-> FALSE, question |-> <<>>, response |-> [kind |-> "text", text |-> <<>>],
          answer |-> <<>>, crashed |-> FALSE]

\* the state after the script's first run: the store loaded (lines 11-23),
\* the history started with the greeting (lines 104-107)
Init ==
    /\ source \in Sources
    /\ data_df = load_data(source)
    /\ build \in Perms(Len(data_df.rows))
    /\ df_copy = NoFrame
    /\ last_call = NoCall
    /\ prompt = NoPrompt
    /\ messages = <<Message("assistant", <<Greeting>>)>>
    /\ last_run = NoRun

\* a call find_relevant_rows(question, top_n)
Rank(question, top_n) ==
    \E r \in {find_relevant_rows(data_df, build, question, top_n)} :
        /\ data_df' = r.store
        /\ df_copy' = r.scratch
        /\ last_call' = [made |-> TRUE, raised |-> r.raised, question |-> question,
                         top_n |-> top_n, result |-> r.result]
        /\ UNCHANGED <<source, build, prompt, messages, last_run>>

\* a call build_prompt(question, context_df), the context the first n rows
\* of the store
Compose(question, n) ==
    \E context \in {head(data_df, n)} :
        /\ prompt' = [made |-> TRUE, question |-> question, context |-> context,
                      payload |-> build_prompt(question, context)]
        /\ UNCHANGED <<source, data_df, df_copy, build, last_call, messages, last_run>>

\* one run of the script with a submitted chat input (lines 115-140); the
\* run's data_df is the cached value of load_data; an exception that leaves
\* the script ends the run where it is raised
HandleInput(user_input, response) ==
    /\ user_input # <<>>
    /\ Len(messages) < 1 + 2 * MaxTurns
    /\ \E r \in {find_relevant_rows(data_df, build, user_input, DefaultTopN)},
          g \in {generate(response)} :
        LET asked == history_with_input(messages, user_input)
            crashed == r.raised \/ g.propagated
        IN  /\ data_df' = r.store
            /\ df_copy' = r.scratch
            /\ last_call' = [made |-> TRUE, raised |-> r.raised, question |-> user_input,
                             top_n |-> DefaultTopN, result |-> r.result]
            /\ prompt' = IF r.raised THEN NoPrompt
                         ELSE [made |-> TRUE, question |-> user_input,
                               context |-> r.result,
                               payload |-> build_prompt(user_input, r.result)]
            /\ messages' = IF crashed THEN asked
                           ELSE Append(asked, Message("assistant", g.answer))
            /\ last_run' = [made |-> TRUE, question |-> user_input, response |-> response,
                            answer |-> IF crashed THEN <<>> ELSE g.answer,
                            crashed |-> crashed]
    /\ UNCHANGED <<source, build>>

Next == \E q \in Questions, n \in TopNs : Rank(q, n)

Spec == Init /\ [][Next]_vars

ComposeNext == \E q \in Questions, n \in 0..MaxTopN : Compose(q, n)

ComposeSpec == Init /\ [][ComposeNext]_vars

ChatNext == \E q \in ChatQuestions, resp \in Responses : HandleInput(q, resp)

ChatSpec == Init /\ [][ChatNext]_vars

----------------------------------------------------------------------------
(* The claims.                                                             *)

Full == [num |-> 1, den |-> 1]

Four == [num |-> 4, den |-> 1]

\* the score the latest call gave the row labelled label
ScoreOf(label) == df_copy.rows[label + 1]["score"]

\* whether two rows agree on the four scored fields
SameScoredFields(r1, r2) ==
    /\ r1["Rule"] = r2["Rule"]
    /\ r1["Example"] = r2["Example"]
    /\ r1["Learning Objective"] = r2["Learning Objective"]
    /\ r1["Related Concept"] = r2["Related Concept"]

\* C1: the rows find_relevant_rows returns are in order of non-increasing
\* score, and returned rows of equal score are in the order of the store.
C1_SortedAndStable ==
    (last_call.made /\ ~last_call.raised) =>
        \A i, j \in 1..Len(last_call.result.index) :
            i < j =>
                LET a == last_call.result.index[i]
                    b == last_call.result.index[j]
                IN  /\ FracLeq(ScoreOf(b), ScoreOf(a))
                    /\ FracEq(ScoreOf(a), ScoreOf(b)) => a < b

\* C2: on a store with rows and top_n >= 1 the call does not fail and returns
\* min(top_n, |records|) rows, each a row of the store, none twice.
C2_LengthAndMembership ==
    (last_call.made /\ Len(data_df.rows) >= 1 /\ last_call.top_n >= 1) =>
        LET res == last_call.result
        IN  /\ ~last_call.raised
            /\ Len(res.rows) = Min(last_call.top_n, Len(data_df.rows))
            /\ Len(res.index) = Len(res.rows)
            /\ res.columns = data_df.columns
            /\ \A i, j \in 1..Len(res.index) : res.index[i] = res.index[j] => i = j
            /\ \A i \in 1..Len(res.index) :
                /\ res.index[i] \in Range(data_df.index)
                /\ res.rows[i] = data_df.rows[res.index[i] + 1]

C2_Witness ==
    /\ last_call.made
    /\ Len(data_df.rows) = 2
    /\ last_call.top_n = 4
    /\ Len(last_call.result.rows) = 2

\* C3: whatever calls were made, the store is the frame load_data returned:
\* the same records, the same columns (no score column), the same order.
C3_StoreUnchanged == data_df = load_data(source)

C3_Witness ==
    /\ last_call.made
    /\ Len(data_df.rows) >= 2
    /\ "score" \in Range(df_copy.columns)
    /\ last_call.result.index # data_df.index

\* C4: on a store without rows the call returns no rows, for every question
\* and every top_n, and does not raise.
C4_EmptyStore ==
    (last_call.made /\ Len(data_df.rows) = 0) =>
        /\ ~last_call.raised
        /\ last_call.result.rows = <<>>
        /\ last_call.result.index = <<>>

C4_Witness ==
    /\ last_call.made
    /\ Len(data_df.rows) = 0
    /\ last_call.top_n = DefaultTopN
    /\ last_call.question # <<>>

\* C5: every record of the store has the six fields, none of them missing
\* (NaN); a field whose column the source lacks, or whose cell is absent in
\* the line, is the empty string.
C5_SixFields ==
    LET kept == kept_lines(source.lines)
    IN  /\ Len(data_df.rows) = Len(kept)
        /\ \A i \in 1..Len(data_df.rows) :
            \A k \in 1..Len(load_expected_cols) :
                LET c == load_expected_cols[k]
                IN  /\ c \in DOMAIN data_df.rows[i]
                    /\ data_df.rows[i][c] # NaN
                    /\ c \notin Range(source.header) => data_df.rows[i][c] = <<>>
                    /\ (c \in Range(source.header) /\ kept[i].cells[c] = NaN)
                          => data_df.rows[i][c] = <<>>
                    /\ (c \in Range(source.header) /\ kept[i].cells[c] # NaN)
                          => data_df.rows[i][c] = kept[i].cells[c]

C5_Witness ==
    /\ "Related Concept" \notin Range(source.header)
    /\ Len(data_df.rows) >= 2
    /\ \E i \in 1..Len(data_df.rows) :
        /\ kept_lines(source.lines)[i].cells["Example"] = NaN
        /\ data_df.rows[i]["Example"] = <<>>
        /\ data_df.rows[i]["Related Concept"] = <<>>
    /\ last_call.made

\* C6: when the generation call raises, the run does not crash; the answer
\* is the error text, and it is the assistant's reply to the question.
C6_FaultCaught ==
    (last_run.made /\ last_run.response.kind = "raise") =>
        /\ ~last_run.crashed
        /\ last_run.answer = <<Oops, CodeOpen>> \o last_run.response.text \o <<CodeClose>>
        /\ Len(messages) >= 3
        /\ messages[Len(messages)] = Message("assistant", last_run.answer)
        /\ messages[Len(messages) - 1] = Message("user", last_run.question)

C6_Witness ==
    /\ last_run.made
    /\ last_run.response.kind = "raise"
    /\ Len(messages) = 5
    /\ messages[3].content # messages[5].content

C8_PromptHoldsQuestion ==
    prompt.made =>
        LET q == prompt.question
            payload == prompt.payload
        IN  /\ Len(payload) >= Len(q) + 4
            /\ payload[1] = Framing
            /\ SubSeq(payload, 2, Len(q) + 3) = <<QuestionHead>> \o q \o <<ContextHead>>
            /\ Contains(payload, q)
            /\ payload[Len(payload)] = AnswerHead
            /\ prompt.context.rows = <<>>
                  => payload = <<Framing, QuestionHead>> \o q \o <<ContextHead, AnswerHead>>

C8_Witness ==
    /\ prompt.made
    /\ prompt.context.rows = <<>>
    /\ prompt.question = <<"B">>
    /\ Len(data_df.rows) >= 1

\* C9: a record's score is the sum of the similarity of Rule, Example,
\* Learning Objective and Related Concept to the question, each in [0,1],
\* so the score is in [0,4]; records that differ only in Chapter or Section
\* have the same score.
C9_ScoreOfFourFields ==
    (last_call.made /\ ~last_call.raised) =>
        /\ Len(df_copy.rows) = Len(data_df.rows)
        /\ \A i \in 1..Len(df_copy.rows) :
            LET q == last_call.question
                row == data_df.rows[i]
                s1 == similarity(q, Str(row["Rule"]))
                s2 == similarity(q, Str(row["Example"]))
                s3 == similarity(q, Str(row["Learning Objective"]))
                s4 == similarity(q, Str(row["Related Concept"]))
                score == df_copy.rows[i]["score"]
            IN  /\ \A s \in {s1, s2, s3, s4} : FracLeq(Zero, s) /\ FracLeq(s, Full)
                /\ FracEq(score, FracAdd(FracAdd(s1, s2), FracAdd(s3, s4)))
                /\ FracLeq(Zero, score)
                /\ FracLeq(score, Four)
        /\ \A i, j \in 1..Len(df_copy.rows) :
            SameScoredFields(data_df.rows[i], data_df.rows[j])
                => FracEq(df_copy.rows[i]["score"], df_copy.rows[j]["score"])

C9_Witness ==
    /\ last_call.made
    /\ last_call.question = <<"B">>
    /\ \E i, j \in 1..Len(data_df.rows) :
        /\ SameScoredFields(data_df.rows[i], data_df.rows[j])
        /\ similarity(<<"B">>, data_df.rows[i]["Chapter"])
              # similarity(<<"B">>, data_df.rows[j]["Chapter"])
        /\ FracLess(Zero, df_copy.rows[i]["score"])

\* the history starts with the greeting and then alternates user, assistant
ChatShape ==
    /\ Len(messages) >= 1
    /\ Len(messages) % 2 = 1
    /\ messages[1] = Message("assistant", <<Greeting>>)
    /\ \A i \in 2..Len(messages) :
        messages[i].role = IF i % 2 = 0 THEN "user" ELSE "assistant"

\* a step that changes the history appends the question as a user message
\* and the answer as an assistant message, and leaves the rest as it was
ChatAppend ==
    messages' # messages =>
        /\ Len(messages') = Len(messages) + 2
        /\ SubSeq(messages', 1, Len(messages)) = messages
        /\ messages'[Len(messages) + 1] = Message("user", last_run'.question)
        /\ messages'[Len(messages) + 2] = Message("assistant", last_run'.answer)
        /\ \/ last_run'.answer = Strip(last_run'.response.text)
           \/ last_run'.answer = <<Fallback>>
           \/ last_run'.answer # <<>> /\ Head(last_run'.answer) = Oops

\* C10: in every state the history is the greeting followed by user and
\* assistant messages in turn; handling a question appends one user message
\* and one assistant message, whether or not generation fails, and changes
\* no message that was there.
C10_HistoryAlternates == []ChatShape /\ [][ChatAppend]_vars

C10_Witness ==
    /\ Len(messages) = 5
    /\ messages[3].content = <<Fallback>>
    /\ Head(messages[5].content) = Oops

====
